---- MODULE Spec2Model ----
(***************************************************************************)
(* Model of the semantic discovery subsystem of discourse-mcp:             *)
(*   src/src/chroma/scoring.ts                      (scoring, tiers)       *)
(*   src/src/tools/builtin/search_discourse_communities.ts  (handler)      *)
(*   src/unnamed/part_001                           (vector-store client)  *)
(*                                                                         *)
(* Number representation (exact fixed point, no floating-point error):     *)
(*   a raw distance is an integer in units of 1e-5;                        *)
(*   an unrounded confidence is an integer in units of 1e-8;               *)
(*   a confidence after toFixed(3) is an integer in units of 1e-3;         *)
(*   a distance after toFixed(4) is an integer in units of 1e-4.           *)
(* Strings that the code takes apart (similar_to, error texts) are         *)
(* sequences of tokens; other strings are TLA+ strings, "" the empty one.  *)
(* An optional argument is a record [present, v].                          *)
(***************************************************************************)
EXTENDS Integers, Sequences, FiniteSets, TLC

VARIABLES
  apiKeySet,   \* process.env.CHROMA_PROXY_API_KEY is set
  pc,          \* where the handler invocation stands
  args,        \* the arguments of the invocation
  calls,       \* the vector-store calls issued so far, in order
  resolved,    \* what resolveToDocument returned (similarity mode)
  received,    \* the nearest-neighbor response the handler received
  transformed, \* what transformResults returned for it
  result,      \* what the handler returned
  replies,     \* history: the store's answers to the calls that were sent
  sd1, sd2,    \* scoring: two distances handed to the pure functions
  sres,        \* scoring: what the pure functions returned
  fin,         \* aggregation: the list handed to a pure function
  fout,        \* aggregation: what the pure function returned
  now,         \* create_post: Date.now(), in ms
  lastPostAt,  \* create_post: the module variable of line 4
  postPc,      \* create_post: where each call of the tool stands
  wakeAt,      \* create_post: when the setTimeout of each call is due
  posts,       \* create_post: the times of the POSTs to /posts.json
  cur,         \* concurrency: the invocation that is running
  parked,      \* concurrency: the locals of the suspended invocations
  interleaved, \* concurrency: history, an invocation ran while another waited
  readPc,      \* read_topic: where the invocation stands
  readArgs,    \* read_topic: post_limit and start_post_number
  current,     \* read_topic: `current` of line 31
  fetchedPosts, \* read_topic: post numbers of `fetchedPosts` (line 32)
  batch,       \* read_topic: the loop counter i of line 40
  fetches,     \* read_topic: history, the number of client.get calls
  readResult   \* read_topic: what the handler returned

handlerVars ==
  <<apiKeySet, pc, args, calls, resolved, received, transformed, result,
    replies>>
scoreVars == <<sd1, sd2, sres>>
listVars == <<fin, fout>>
postVars == <<now, lastPostAt, postPc, wakeAt, posts>>
concVars == <<cur, parked, interleaved>>
readVars ==
  <<readPc, readArgs, current, fetchedPosts, batch, fetches, readResult>>
notHandlerVars == <<scoreVars, listVars, postVars, concVars, readVars>>
vars ==
  <<apiKeySet, pc, args, calls, resolved, received, transformed, result,
    replies, sd1, sd2, sres, fin, fout, now, lastPostAt, postPc, wakeAt,
    posts, cur, parked, interleaved, readPc, readArgs, current, fetchedPosts, batch,
    fetches, readResult>>

(***************************************************************************)
(* Bounds of the model.                                                    *)
(***************************************************************************)
MaxDistK == 44     \* scoring grid: distances up to MaxDistK * 0.05
MaxLimit == 2      \* explicit limit argument ranges over 1..MaxLimit
MaxHits == 2       \* freely chosen hits at the head of a store response
PadLen == 9        \* length of the uniform tail a store response may carry
MaxListLen == 4    \* length of the lists the statistics are applied to
MaxRerankLen == 3  \* length of the lists rerank is applied to
MaxCalls == 3      \* calls of discourse_create_post
MaxNow == 3000     \* the clock stops here (ms)
MaxRequests == 2   \* search requests running concurrently
MaxPostLimit == 11 \* read_topic: the largest post_limit argument

Min(a, b) == IF a < b THEN a ELSE b
Max(a, b) == IF a > b THEN a ELSE b

(***************************************************************************)
(* scoring.ts                                                              *)
(***************************************************************************)
calculateConfidenceFromDistance_noFloor(distance) ==
  IF distance < 80000 THEN Min(100000000, 90000000 + (80000 - distance) * 125)
  ELSE IF distance < 100000 THEN 70000000 + (100000 - distance) * 1000
  ELSE IF distance < 120000 THEN 50000000 + (120000 - distance) * 1000
  ELSE IF distance < 140000 THEN 30000000 + (140000 - distance) * 1000
  ELSE 30000000 - (distance - 140000) * 330

calculateConfidenceFromDistance_copyPaste(distance) ==
  IF distance < 80000 THEN Min(100000000, 90000000 + (80000 - distance) * 125)
  ELSE IF distance < 100000 THEN 50000000 + (100000 - distance) * 1000
  ELSE IF distance < 120000 THEN 50000000 + (120000 - distance) * 1000
  ELSE IF distance < 140000 THEN 30000000 + (140000 - distance) * 1000
  ELSE Max(10000000, 30000000 - (distance - 140000) * 330)

calculateConfidenceFromDistance_steep(distance) ==
  IF distance < 80000 THEN Min(100000000, 90000000 + (80000 - distance) * 125)
  ELSE IF distance < 100000 THEN 70000000 + (100000 - distance) * 1000
  ELSE IF distance < 120000 THEN 50000000 + (120000 - distance) * 1000
  ELSE IF distance < 140000 THEN 30000000 + (140000 - distance) * 1000
  ELSE Max(10000000, 33000000 - (distance - 140000) * 330)

calculateConfidenceFromDistance_cappedEarly(distance) ==
  IF distance < 80000 THEN Min(100000000, 90000000 + (80000 - distance) * 250)
  ELSE IF distance < 100000 THEN 70000000 + (100000 - distance) * 1000
  ELSE IF distance < 120000 THEN 50000000 + (120000 - distance) * 1000
  ELSE IF distance < 140000 THEN 30000000 + (140000 - distance) * 1000
  ELSE Max(10000000, 30000000 - (distance - 140000) * 330)

calculateConfidenceFromDistance(distance) ==
  IF distance < 80000 THEN Min(100000000, 90000000 + (80000 - distance) * 125)
  ELSE IF distance < 100000 THEN 70000000 + (100000 - distance) * 1000
  ELSE IF distance < 120000 THEN 50000000 + (120000 - distance) * 1000
  ELSE IF distance < 140000 THEN 30000000 + (140000 - distance) * 1000
  ELSE Max(10000000, 30000000 - (distance - 140000) * 330)

classifyMatchTier_inclusive(distance) ==
  IF distance <= 20000 THEN "exact"
  ELSE IF distance <= 35000 THEN "semantic"
  ELSE IF distance <= 65000 THEN "adjacent"
  ELSE "peripheral"

classifyMatchTier(distance) ==
  IF distance < 20000 THEN "exact"
  ELSE IF distance < 35000 THEN "semantic"
  ELSE IF distance < 65000 THEN "adjacent"
  ELSE "peripheral"

\* Number(x.toFixed(3)) of an unrounded confidence: nearest 1e-3, ties up.
ToFixed3(conf) == (conf + 50000) \div 100000

\* Number(x.toFixed(4)) of a raw distance: nearest 1e-4, ties up.
ToFixed4(distance) == (distance + 5) \div 10

(***************************************************************************)
(* JavaScript values.  A list the code indexes past its end, or reads      *)
(* through `x?.[0] || []` when x is null, yields undefined.                *)
(***************************************************************************)
NullDist == [k |-> "null", v |-> 0]
UndefDist == [k |-> "undefined", v |-> 0]
Num(d) == [k |-> "num", v |-> d]

NullMeta ==
  [k |-> "null", id |-> "", engagement_tier |-> "", active_users_30_days |-> 0]
UndefMeta ==
  [k |-> "undefined", id |-> "", engagement_tier |-> "",
   active_users_30_days |-> 0]
Meta(id, tier, active) ==
  [k |-> "obj", id |-> id, engagement_tier |-> tier,
   active_users_30_days |-> active]

\* arr[i] of a JavaScript array (i counted from 1 here)
At(arr, i, undef) == IF i <= Len(arr) THEN arr[i] ELSE undef

\* !metadata
Falsy(metadata) == metadata.k # "obj"

(***************************************************************************)
(* search_discourse_communities.ts: transformResults                       *)
(* A Community keeps the fields the properties read: id, engagement_tier,  *)
(* active_users_30_days, confidence, distance, match_tier.  hit is a       *)
(* history field (not in the program): the position in the store response  *)
(* of the hit the Community was built from.  title, url, description,      *)
(* users_count, categories and tags are copied from the metadata and read  *)
(* by nothing.                                                             *)
(***************************************************************************)
MakeCommunity(i, id, metadata, distance) ==
  [id |-> IF metadata.id # "" THEN metadata.id ELSE id,
   hit |-> i,
   active_users_30_days |-> metadata.active_users_30_days,
   engagement_tier |->
     IF metadata.engagement_tier # "" THEN metadata.engagement_tier
     ELSE "unknown",
   confidence |-> ToFixed3(calculateConfidenceFromDistance(distance.v)),
   distance |-> ToFixed4(distance.v),
   match_tier |-> classifyMatchTier(distance.v)]

\* the test of line 403: the hit is skipped
Skipped(metadata, distance) == Falsy(metadata) \/ distance.k = "null"

RECURSIVE TransformFrom(_, _, _, _)
TransformFrom(ids, metadatas, distances, i) ==
  IF i > Len(ids) THEN <<>>
  ELSE LET metadata == At(metadatas, i, UndefMeta)
           distance == At(distances, i, UndefDist)
           rest == TransformFrom(ids, metadatas, distances, i + 1)
       IN IF Skipped(metadata, distance) THEN rest
          ELSE IF distance.k # "num" THEN rest
          ELSE <<MakeCommunity(i, ids[i], metadata, distance)>> \o rest

\* distance.toFixed(4) of an undefined distance throws a TypeError; with a
\* null metadata the property reads of lines 406-414 would throw as well.
TransformThrows(ids, metadatas, distances) ==
  \E i \in 1..Len(ids) :
    LET metadata == At(metadatas, i, UndefMeta)
        distance == At(distances, i, UndefDist)
    IN ~Skipped(metadata, distance) /\ (distance.k # "num" \/ Falsy(metadata))

transformResults(ids, metadatas, distances) ==
  [threw |-> TransformThrows(ids, metadatas, distances),
   communities |->
     IF TransformThrows(ids, metadatas, distances) THEN <<>>
     ELSE TransformFrom(ids, metadatas, distances, 1)]

(***************************************************************************)
(* search_discourse_communities.ts: rerank                                 *)
(* [...communities].sort(cmp) with Array.prototype.sort as Node's V8 runs  *)
(* it on fewer than 64 elements (smithery.config.js targets node22): find  *)
(* the leading run, reverse it if strictly descending, then binary         *)
(* insertion of the remaining elements.                                    *)
(***************************************************************************)
tierOrder(t) ==
  CASE t = "high" -> 3
    [] t = "medium" -> 2
    [] t = "low" -> 1
    [] OTHER -> 0

Abs(x) == IF x < 0 THEN -x ELSE x

\* the comparator of lines 431-443
Compare(a, b) ==
  LET confDiff == b.confidence - a.confidence
      tierDiff == tierOrder(b.engagement_tier) - tierOrder(a.engagement_tier)
  IN IF Abs(confDiff) > 100 THEN confDiff
     ELSE IF tierDiff # 0 THEN tierDiff
     ELSE b.active_users_30_days - a.active_users_30_days

RECURSIVE RunLength(_, _, _)
RunLength(s, idx, isDescending) ==
  IF idx > Len(s) THEN Len(s)
  ELSE LET order == Compare(s[idx], s[idx - 1])
       IN IF (isDescending /\ order >= 0) \/ (~isDescending /\ order < 0)
          THEN idx - 1
          ELSE RunLength(s, idx + 1, isDescending)

ReverseRange(s, n) ==
  [p \in 1..Len(s) |-> IF p <= n THEN s[n + 1 - p] ELSE s[p]]

RECURSIVE FindInsertionPoint(_, _, _, _)
FindInsertionPoint(s, pivot, left, right) ==
  IF left >= right THEN left
  ELSE LET mid == left + ((right - left) \div 2)
       IN IF Compare(pivot, s[mid + 1]) < 0
          THEN FindInsertionPoint(s, pivot, left, mid)
          ELSE FindInsertionPoint(s, pivot, mid + 1, right)

RECURSIVE BinaryInsertionSort(_, _)
BinaryInsertionSort(s, start) ==
  IF start >= Len(s) THEN s
  ELSE LET pivot == s[start + 1]
           left == FindInsertionPoint(s, pivot, 0, start)
           moved == [p \in 1..Len(s) |->
                       IF p - 1 < left THEN s[p]
                       ELSE IF p - 1 = left THEN pivot
                       ELSE IF p - 1 <= start THEN s[p - 1]
                       ELSE s[p]]
       IN BinaryInsertionSort(moved, start + 1)

rerank(communities) ==
  IF Len(communities) < 2 THEN communities
  ELSE LET isDescending == Compare(communities[2], communities[1]) < 0
           run == RunLength(communities, 3, isDescending)
           made == IF isDescending THEN ReverseRange(communities, run)
                   ELSE communities
       IN BinaryInsertionSort(made, run)

(***************************************************************************)
(* scoring.ts: calculateConfidenceStats, calculateTierDistribution         *)
(***************************************************************************)
RECURSIVE InsertAsc(_, _)
InsertAsc(x, s) ==
  IF s = <<>> THEN <<x>>
  ELSE IF x <= Head(s) THEN <<x>> \o s
  ELSE <<Head(s)>> \o InsertAsc(x, Tail(s))

SortAsc_none(s) == s

RECURSIVE SortAsc(_)
SortAsc(s) == IF s = <<>> THEN <<>> ELSE InsertAsc(Head(s), SortAsc(Tail(s)))

Sum_withoutLast(s) ==
  LET F[i \in 0..Len(s)] == IF i = 0 THEN 0 ELSE F[i - 1] + s[i]
  IN IF s = <<>> THEN 0 ELSE F[Len(s) - 1]

RECURSIVE Sum(_)
Sum(s) == IF s = <<>> THEN 0 ELSE Head(s) + Sum(Tail(s))

\* confidences are in units of 1e-3, and so is each toFixed(3) result
calculateConfidenceStats(communities) ==
  IF Len(communities) = 0 THEN [mean |-> 0, median |-> 0, min |-> 0, max |-> 0]
  ELSE LET n == Len(communities)
           confidences == SortAsc([i \in 1..n |-> communities[i].confidence])
           mid == n \div 2
       IN [mean |-> (2 * Sum(confidences) + n) \div (2 * n),
           median |-> IF n % 2 = 0
                      THEN (confidences[mid] + confidences[mid + 1] + 1) \div 2
                      ELSE confidences[mid + 1],
           min |-> confidences[1],
           max |-> confidences[n]]

CountTier(communities, t) ==
  Cardinality({i \in 1..Len(communities) : communities[i].match_tier = t})

calculateTierDistribution_sparse(communities) ==
  [t \in {u \in {"exact", "semantic", "adjacent", "peripheral"} :
             CountTier(communities, u) > 0} |-> CountTier(communities, t)]

calculateTierDistribution(communities) ==
  [exact |-> CountTier(communities, "exact"),
   semantic |-> CountTier(communities, "semantic"),
   adjacent |-> CountTier(communities, "adjacent"),
   peripheral |-> CountTier(communities, "peripheral")]

(***************************************************************************)
(* search_discourse_communities.ts: arguments and buildWhereClause         *)
(***************************************************************************)
None(v) == [present |-> FALSE, v |-> v]
Some(v) == [present |-> TRUE, v |-> v]

\* JavaScript truthiness of an optional string argument
TruthyStr(o) == o.present /\ o.v # ""
TruthySeq(o) == o.present /\ o.v # <<>>

Clause(field, op, num, str) ==
  [field |-> field, op |-> op, num |-> num, str |-> str]

buildWhereClause(filters) ==
  LET c1 == IF filters.min_users.present
            THEN <<Clause("users_count", "$gte", filters.min_users.v, "")>>
            ELSE <<>>
      c2 == IF TruthyStr(filters.engagement_tier)
            THEN <<Clause("engagement_tier", "$eq", 0,
                          filters.engagement_tier.v)>>
            ELSE <<>>
      c3 == IF TruthyStr(filters.locale)
            THEN <<Clause("locale", "$eq", 0, filters.locale.v)>>
            ELSE <<>>
      clauses == c1 \o c2 \o c3
  IN IF Len(clauses) = 0 THEN [k |-> "undefined", clauses |-> <<>>]
     ELSE IF Len(clauses) = 1 THEN [k |-> "single", clauses |-> clauses]
     ELSE [k |-> "$and", clauses |-> clauses]

DefaultLimit == 10

\* `limit = 10` of the destructuring at line 573
Limit(a) == IF a.limit.present THEN a.limit.v ELSE DefaultLimit

NeighborCount_limit(a) == Limit(a)

\* `limit + 1` of line 614: one more, for the self-match
NeighborCount(a) == Limit(a) + 1

(***************************************************************************)
(* The inputs of the model.                                                *)
(***************************************************************************)
IdInput == <<"discover_", "1">>
UrlInput == <<"https://a.example">>
UrlSlashInput == <<"https://a.example", "/">>
UrlTwoSlashInput == <<"https://a.example", "/", "/">>

Filters ==
  { [min_users |-> None(0), engagement_tier |-> None(""), locale |-> None("")],
    [min_users |-> Some(0), engagement_tier |-> None(""), locale |-> None("")],
    [min_users |-> Some(100), engagement_tier |-> Some("high"),
     locale |-> Some("en")] }

\* what the input schema (lines 517-549) accepts: query a non-empty string,
\* similar_to any string, limit an integer in 1..50
ArgSets ==
  [query : {None(""), Some("x")},
   similar_to : {None(<<>>), Some(<<>>), Some(IdInput), Some(UrlInput),
                 Some(UrlSlashInput), Some(UrlTwoSlashInput)},
   limit : {None(0)} \cup {Some(n) : n \in 1..MaxLimit},
   filters : Filters]

Hit(id, metadata, distance) ==
  [id |-> id, metadata |-> metadata, distance |-> distance]

HitPool ==
  { Hit("discover_1", Meta("discover_1", "high", 50), Num(10000)),
    Hit("discover_1", Meta("", "", 0), Num(0)),
    Hit("discover_1", Meta("1", "low", 5), Num(0)),
    Hit("discover_2", Meta("discover_2", "low", 500), Num(19996)),
    Hit("discover_3", NullMeta, Num(30000)),
    Hit("discover_3", Meta("discover_3", "medium", 20), NullDist),
    Hit("discover_4", Meta("discover_4", "high", 7), Num(250000)) }

PadHit == Hit("discover_9", Meta("discover_9", "medium", 9), Num(85000))

HitLists ==
  UNION { [1..n -> HitPool] : n \in 0..MaxHits }

Padded(hits, pad) ==
  [i \in 1..(Len(hits) + pad) |-> IF i <= Len(hits) THEN hits[i] ELSE PadHit]

\* ids = results.ids[0] || [], metadatas = results.metadatas?.[0] || [],
\* distances = results.distances?.[0] || []: a store response that carries
\* no distances (distances: null) gives the empty list.
QueryResponse(hits, withDistances) ==
  [k |-> "response", ok |-> TRUE,
   ids |-> [i \in 1..Len(hits) |-> hits[i].id],
   metadatas |-> [i \in 1..Len(hits) |-> hits[i].metadata],
   distances |-> IF withDistances
                 THEN [i \in 1..Len(hits) |-> hits[i].distance]
                 ELSE <<>>]

FailedResponse ==
  [k |-> "response", ok |-> FALSE, ids |-> <<>>, metadatas |-> <<>>,
   distances |-> <<>>]

QueryResponses ==
  { QueryResponse(Padded(h, pad), wd) :
      h \in HitLists, pad \in {0, PadLen}, wd \in BOOLEAN }
  \cup {FailedResponse}

\* a /get response: ids, and embeddings?.[0] ("" when there is none)
GetResponse(ok, ids, embedding) ==
  [k |-> "get", ok |-> ok, ids |-> ids, embedding |-> embedding]

GetResponses ==
  { GetResponse(FALSE, <<>>, ""),
    GetResponse(TRUE, <<>>, ""),
    GetResponse(TRUE, <<"discover_1">>, ""),
    GetResponse(TRUE, <<"discover_1">>, "vec_1") }

(***************************************************************************)
(* search_discourse_communities.ts: the handler (lines 571-663) and        *)
(* resolveToDocument (lines 449-488), cut at their awaits.                 *)
(***************************************************************************)
NoScore == [op |-> "none", c1 |-> 0, c2 |-> 0, t1 |-> "", t2 |-> ""]

NoOutput == [op |-> "none"]

NoFilters ==
  [min_users |-> None(0), engagement_tier |-> None(""), locale |-> None("")]

NoArgs ==
  [query |-> None(""), similar_to |-> None(<<>>), limit |-> None(0),
   filters |-> NoFilters]

NoSummary ==
  [total_found |-> 0, returned |-> 0, has_more |-> FALSE,
   confidence_stats |-> [mean |-> 0, median |-> 0, min |-> 0, max |-> 0],
   tier_distribution |->
     [exact |-> 0, semantic |-> 0, adjacent |-> 0, peripheral |-> 0]]

NoResult ==
  [status |-> "none", isError |-> FALSE, text |-> <<>>, query |-> None(""),
   similar_to |-> None(""), communities |-> <<>>, summary |-> NoSummary]

NoResolved == [id |-> "", embedding |-> ""]

NoResponse ==
  [k |-> "none", ok |-> FALSE, ids |-> <<>>, metadatas |-> <<>>,
   distances |-> <<>>]

NotTransformed == [threw |-> FALSE, communities |-> <<>>]

\* an error result: { content: [{type: "text", text}], isError: true }
ErrorResult(text) ==
  [status |-> "error", isError |-> TRUE, text |-> text, query |-> None(""),
   similar_to |-> None(""), communities |-> <<>>, summary |-> NoSummary]

ValidationText ==
  <<"Validation error: Provide ", "exactly one of",
    " 'query' or 'similar_to'">>

Caught_rethrow(message) ==
  [status |-> "exception", isError |-> FALSE, text |-> message,
   query |-> None(""), similar_to |-> None(""), communities |-> <<>>,
   summary |-> NoSummary]

\* the catch of lines 655-662: `Error: ${message}`
Caught(message) == ErrorResult(<<"Error: ">> \o message)

\* getApiKey (part_001 lines 48-57)
MissingKeyMessage ==
  <<"Missing ", "CHROMA", "_PROXY_API_KEY environment variable. ",
    "Set this to use the search_discourse_communities tool.">>

\* part_001 lines 87-90
TransportMessage == <<"ChromaDB proxy error (", "500", "): ", "upstream">>

\* resolveToDocument line 459
NotFoundIdMessage(input) == <<"Community not found with ID: ">> \o input

NotFoundUrlMessage_normalized(input) ==
  <<"Community not found with URL: ">>
    \o (IF input # <<>> /\ input[Len(input)] = "/"
        THEN SubSeq(input, 1, Len(input) - 1) ELSE input)

\* resolveToDocument line 473
NotFoundUrlMessage(input) == <<"Community not found with URL: ">> \o input

EmbeddingMessage_notFound(input) ==
  <<"Community not found with ID: ">> \o input

\* resolveToDocument line 480
EmbeddingMessage(input) ==
  <<"Could not retrieve embedding for community: ">> \o input

ToFixedTypeError ==
  <<"Cannot read properties of undefined (reading 'toFixed')">>

has_more_atLeast(communities, limit) == Len(communities) >= limit

has_more(communities, limit) == Len(communities) = limit

\* the response of lines 638-654
SuccessResult(a, communities, responseQuery, similarToRef) ==
  [status |-> "success", isError |-> FALSE, text |-> <<>>,
   query |-> responseQuery, similar_to |-> similarToRef,
   communities |-> communities,
   summary |->
     [total_found |-> Len(communities),
      returned |-> Len(communities),
      has_more |-> has_more(communities, Limit(a)),
      confidence_stats |-> calculateConfidenceStats(communities),
      tier_distribution |-> calculateTierDistribution(communities)]]

StoreCall_keyUnchecked(fn, arg, nResults, where) ==
  [fn |-> fn, arg |-> arg, nResults |-> nResults, where |-> where,
   sent |-> TRUE]

\* a call of a function of the store client; the HTTP request is sent
\* only if getApiKey() does not throw while the request is being built
StoreCall(fn, arg, nResults, where) ==
  [fn |-> fn, arg |-> arg, nResults |-> nResults, where |-> where,
   sent |-> apiKeySet]

NoWhere == [k |-> "undefined", clauses |-> <<>>]

startsWithDiscover(input) == input # <<>> /\ Head(input) = "discover_"

\* input.replace(/\/$/, "")
stripTrailingSlash_none(input) == input

stripTrailingSlash(input) ==
  IF input # <<>> /\ input[Len(input)] = "/"
  THEN SubSeq(input, 1, Len(input) - 1)
  ELSE input

Slice(s, n) == SubSeq(s, 1, Min(n, Len(s)))

\* the validation of line 576
Invalid(a) ==
  \/ (TruthyStr(a.query) /\ TruthySeq(a.similar_to))
  \/ (~TruthyStr(a.query) /\ ~TruthySeq(a.similar_to))

\* the parts of the state a specification does not exercise
HandlerIdle ==
  /\ apiKeySet = TRUE
  /\ pc = "idle"
  /\ args = NoArgs
  /\ calls = <<>>
  /\ resolved = NoResolved
  /\ received = NoResponse
  /\ transformed = NotTransformed
  /\ result = NoResult
  /\ replies = <<>>

ScoreIdle == sd1 = 0 /\ sd2 = 0 /\ sres = NoScore

ListIdle == fin = <<>> /\ fout = NoOutput

PostIdle ==
  /\ now = 0
  /\ lastPostAt = 0
  /\ postPc = <<>>
  /\ wakeAt = <<>>
  /\ posts = <<>>

ConcIdle == cur = 0 /\ parked = <<>> /\ interleaved = FALSE

NoReadArgs == [post_limit |-> None(0), start_post_number |-> None(0)]

NoReadResult == [status |-> "none", isError |-> FALSE, posts |-> <<>>]

ReadIdle ==
  /\ readPc = "idle"
  /\ readArgs = NoReadArgs
  /\ current = 0
  /\ fetchedPosts = <<>>
  /\ batch = 0
  /\ fetches = 0
  /\ readResult = NoReadResult

Init ==
  /\ apiKeySet \in BOOLEAN
  /\ pc = "idle"
  /\ args = NoArgs
  /\ calls = <<>>
  /\ resolved = NoResolved
  /\ received = NoResponse
  /\ transformed = NotTransformed
  /\ result = NoResult
  /\ replies = <<>>
  /\ ScoreIdle
  /\ ListIdle
  /\ PostIdle
  /\ ConcIdle
  /\ ReadIdle

\* The handler is called and runs to its first await or to its return.
Invoke(a) ==
  /\ pc = "idle"
  /\ args' = a
  /\ IF Invalid(a)
     THEN /\ result' = ErrorResult(ValidationText)
          /\ pc' = "done"
          /\ calls' = calls
     ELSE IF TruthyStr(a.query)
     THEN /\ calls' = Append(calls,
                 StoreCall("queryByText", <<a.query.v>>, Limit(a),
                           buildWhereClause(a.filters)))
          /\ pc' = "queryByText"
          /\ result' = result
     ELSE IF startsWithDiscover(a.similar_to.v)
     THEN /\ calls' = Append(calls,
                 StoreCall("getByIds", a.similar_to.v, 0, NoWhere))
          /\ pc' = "getByIds"
          /\ result' = result
     ELSE /\ calls' = Append(calls,
                 StoreCall("getByMetadata",
                           stripTrailingSlash(a.similar_to.v), 0, NoWhere))
          /\ pc' = "getByMetadata1"
          /\ result' = result
  /\ UNCHANGED <<apiKeySet, resolved, received, transformed, replies>>
  /\ UNCHANGED notHandlerVars

\* the handler ends with the error result of its catch
Throw(message) ==
  /\ result' = Caught(message)
  /\ pc' = "done"
  /\ UNCHANGED <<apiKeySet, args, calls, resolved>>
  /\ UNCHANGED notHandlerVars

Fail(message) ==
  /\ Throw(message)
  /\ UNCHANGED <<received, transformed>>

\* history: the answer to the last call, if its request was sent
Reply(r) ==
  [ok |-> r.ok, found |-> r.ok /\ r.ids # <<>>,
   id |-> IF r.ok /\ r.ids # <<>> THEN r.ids[1] ELSE "",
   embedding |-> IF r.k = "get" THEN r.embedding ELSE ""]

Replied(r) ==
  replies' = IF calls[Len(calls)].sent THEN Append(replies, Reply(r))
             ELSE replies

CallFailure_retry(r) ==
  IF ~calls[Len(calls)].sent THEN Fail(MissingKeyMessage)
  ELSE /\ ~r.ok
       /\ calls' = Append(calls, calls[Len(calls)])
       /\ UNCHANGED <<apiKeySet, pc, args, resolved, received, transformed,
                      result>>
       /\ UNCHANGED notHandlerVars

\* a call whose request was never sent, or whose response is not ok, throws
CallFailure(r) ==
  IF ~calls[Len(calls)].sent THEN Fail(MissingKeyMessage)
  ELSE ~r.ok /\ Fail(TransportMessage)

\* text mode, lines 597-606
QueryByTextReturns(r) ==
  /\ pc = "queryByText"
  /\ Replied(r)
  /\ \/ CallFailure(r)
     \/ /\ calls[Len(calls)].sent /\ r.ok
        /\ received' = r
        /\ LET t == transformResults(r.ids, r.metadatas, r.distances)
           IN /\ transformed' = t
              /\ IF t.threw THEN Throw(ToFixedTypeError)
                 ELSE
                   /\ result' = SuccessResult(args, rerank(t.communities),
                                              Some(args.query.v), None(""))
                   /\ pc' = "done"
                   /\ UNCHANGED <<apiKeySet, args, calls, resolved>>
                   /\ UNCHANGED notHandlerVars

\* resolveToDocument lines 478-488, then the handler's line 614
Found(r) ==
  IF r.embedding = ""
  THEN Fail(EmbeddingMessage(args.similar_to.v))
  ELSE /\ resolved' = [id |-> r.ids[1], embedding |-> r.embedding]
       /\ calls' = Append(calls,
              StoreCall("queryByEmbedding", <<r.embedding>>, NeighborCount(args),
                        buildWhereClause(args.filters)))
       /\ pc' = "queryByEmbedding"
       /\ UNCHANGED <<apiKeySet, args, received, transformed, result>>
       /\ UNCHANGED notHandlerVars

\* resolveToDocument lines 456-460
GetByIdsReturns(r) ==
  /\ pc = "getByIds"
  /\ Replied(r)
  /\ \/ CallFailure(r)
     \/ /\ calls[Len(calls)].sent /\ r.ok
        /\ IF r.ids = <<>>
           THEN Fail(NotFoundIdMessage(args.similar_to.v))
           ELSE Found(r)

\* resolveToDocument lines 466-470
GetByMetadata1Returns(r) ==
  /\ pc = "getByMetadata1"
  /\ Replied(r)
  /\ \/ CallFailure(r)
     \/ /\ calls[Len(calls)].sent /\ r.ok
        /\ IF r.ids = <<>>
           THEN /\ calls' = Append(calls,
                       StoreCall("getByMetadata",
                                 stripTrailingSlash(args.similar_to.v)
                                   \o <<"/">>, 0, NoWhere))
                /\ pc' = "getByMetadata2"
                /\ UNCHANGED <<apiKeySet, args, resolved, received,
                               transformed, result>>
                /\ UNCHANGED notHandlerVars
           ELSE Found(r)

\* resolveToDocument lines 470-474
GetByMetadata2Returns(r) ==
  /\ pc = "getByMetadata2"
  /\ Replied(r)
  /\ \/ CallFailure(r)
     \/ /\ calls[Len(calls)].sent /\ r.ok
        /\ IF r.ids = <<>>
           THEN Fail(NotFoundUrlMessage(args.similar_to.v))
           ELSE Found(r)

\* the filter of line 624
NotSource_keepAll(c, sourceId) == TRUE

NotSource(c, sourceId) == c.id # sourceId

\* lines 623-625
SimilarCommunities(allCommunities, sourceId, limit) ==
  Slice(rerank(SelectSeq(allCommunities, LAMBDA c : NotSource(c, sourceId))),
        limit)

\* similarity mode, lines 614-631
QueryByEmbeddingReturns(r) ==
  /\ pc = "queryByEmbedding"
  /\ Replied(r)
  /\ \/ CallFailure(r)
     \/ /\ calls[Len(calls)].sent /\ r.ok
        /\ received' = r
        /\ LET t == transformResults(r.ids, r.metadatas, r.distances)
           IN /\ transformed' = t
              /\ IF t.threw THEN Throw(ToFixedTypeError)
                 ELSE
                   /\ result' =
                        SuccessResult(args,
                          SimilarCommunities(t.communities, resolved.id,
                                             Limit(args)),
                          None(""), Some(resolved.id))
                   /\ pc' = "done"
                   /\ UNCHANGED <<apiKeySet, args, calls, resolved>>
                   /\ UNCHANGED notHandlerVars

Next ==
  \/ \E a \in ArgSets : Invoke(a)
  \/ \E r \in QueryResponses : QueryByTextReturns(r)
  \/ \E r \in GetResponses : GetByIdsReturns(r)
  \/ \E r \in GetResponses : GetByMetadata1Returns(r)
  \/ \E r \in GetResponses : GetByMetadata2Returns(r)
  \/ \E r \in QueryResponses : QueryByEmbeddingReturns(r)

Spec == Init /\ [][Next]_vars

(***************************************************************************)
(* The scoring functions applied to a grid of distances: every multiple    *)
(* of 0.05 up to MaxDistK * 0.05, and the values 1e-5 below and above it.  *)
(***************************************************************************)
ScoreDistances ==
  { 5000 * k + off : k \in 0..MaxDistK, off \in {-1, 0, 1} } \ {-1}

ScoreInit ==
  /\ sd1 \in ScoreDistances
  /\ sd2 \in ScoreDistances
  /\ sres = NoScore
  /\ HandlerIdle
  /\ ListIdle
  /\ PostIdle
  /\ ConcIdle
  /\ ReadIdle

ScoreConfidence ==
  /\ sres.op = "none"
  /\ sres' = [op |-> "confidence",
              c1 |-> calculateConfidenceFromDistance(sd1),
              c2 |-> calculateConfidenceFromDistance(sd2),
              t1 |-> "", t2 |-> ""]
  /\ UNCHANGED <<sd1, sd2>>
  /\ UNCHANGED <<handlerVars, listVars, postVars, concVars, readVars>>

ScoreTier ==
  /\ sres.op = "none"
  /\ sres' = [op |-> "tier", c1 |-> 0, c2 |-> 0,
              t1 |-> classifyMatchTier(sd1),
              t2 |-> classifyMatchTier(sd2)]
  /\ UNCHANGED <<sd1, sd2>>
  /\ UNCHANGED <<handlerVars, listVars, postVars, concVars, readVars>>

ScoreNext == ScoreConfidence \/ ScoreTier

SpecScore == ScoreInit /\ [][ScoreNext]_vars

(***************************************************************************)
(* Properties of the scoring functions (checked under SpecScore).          *)
(***************************************************************************)

\* C3: calculateConfidenceFromDistance is non-increasing: for distances
\* 0 <= d1 < d2 the confidence of d1 is at least the confidence of d2, also
\* across the breakpoints 0.8, 1.0, 1.2, 1.4 and beyond the 0.1 floor.
C3_NonIncreasing ==
  (sres.op = "confidence" /\ 0 <= sd1 /\ sd1 < sd2) => sres.c1 >= sres.c2

\* C3 witness: a pair on opposite sides of the breakpoint 1.4 has been scored.
C3_Witness ==
  /\ sres.op = "confidence"
  /\ sd1 = 139999 /\ sd2 = 140000
  /\ sres.c1 > sres.c2

\* The range the table of the scorer gives for the band of distance d.
InBand(d, c) ==
  IF d < 80000 THEN 90000000 <= c /\ c <= 100000000
  ELSE IF d < 100000 THEN 70000000 < c /\ c <= 90000000
  ELSE IF d < 120000 THEN 50000000 < c /\ c <= 70000000
  ELSE IF d < 140000 THEN 30000000 < c /\ c <= 50000000
  ELSE 10000000 <= c /\ c <= 30000000

\* C4: for every distance d >= 0 the confidence lies in the range of d's
\* band ([0.9,1.0], (0.7,0.9], (0.5,0.7], (0.3,0.5], [0.1,0.3]), a breakpoint
\* belonging to the band that starts at it, and the confidence of 0 is 1.0.
C4_BandRanges ==
  sres.op = "confidence" =>
    /\ InBand(sd1, sres.c1)
    /\ InBand(sd2, sres.c2)
    /\ (sd1 = 0 => sres.c1 = 100000000)

\* C4 witness: the breakpoint 0.8 was scored 0.9 and the breakpoint 1.0
\* was scored 0.7, each the top of the band that starts there.
C4_Witness ==
  /\ sres.op = "confidence"
  /\ sd1 = 80000 /\ sres.c1 = 90000000
  /\ sd2 = 100000 /\ sres.c2 = 70000000

TierRank(t) ==
  CASE t = "exact" -> 0
    [] t = "semantic" -> 1
    [] t = "adjacent" -> 2
    [] OTHER -> 3

TierOfThresholds(d, t) ==
  /\ (t = "exact" <=> d < 20000)
  /\ (t = "semantic" <=> (20000 <= d /\ d < 35000))
  /\ (t = "adjacent" <=> (35000 <= d /\ d < 65000))
  /\ (t = "peripheral" <=> d >= 65000)

\* C5: classifyMatchTier(d) is exact iff d < 0.2, semantic iff
\* 0.2 <= d < 0.35, adjacent iff 0.35 <= d < 0.65, peripheral iff d >= 0.65,
\* and the tier never moves toward exact as d grows.
C5_TierThresholds ==
  sres.op = "tier" =>
    /\ TierOfThresholds(sd1, sres.t1)
    /\ TierOfThresholds(sd2, sres.t2)
    /\ (sd1 <= sd2 => TierRank(sres.t1) <= TierRank(sres.t2))

\* C5 witness: the thresholds 0.2 and 0.65 themselves were classified and
\* got the tier on the higher-distance side.
C5_Witness ==
  /\ sres.op = "tier"
  /\ sd1 = 20000 /\ sres.t1 = "semantic"
  /\ sd2 = 65000 /\ sres.t2 = "peripheral"

(***************************************************************************)
(* Properties of the handler (checked under Spec).                         *)
(***************************************************************************)
Contains(text, token) == \E i \in 1..Len(text) : text[i] = token

Success == pc = "done" /\ result.status = "success"
SimilarityMode == Success /\ result.similar_to.present

\* C1: a call in which query and similar_to are both present (any strings
\* the schema accepts) or both absent returns an error result whose text
\* contains 'exactly one of', and no vector-store function is called.
C1_BothOrNeitherRejected ==
  (pc # "idle" /\ args.query.present = args.similar_to.present) =>
    /\ pc = "done"
    /\ result.isError
    /\ Contains(result.text, "exactly one of")
    /\ calls = <<>>

\* C2: in every successful response, in text mode and in similarity mode,
\* each community's confidence lies in [0.1, 1.0].
C2_ConfidenceBounded ==
  Success =>
    \A i \in 1..Len(result.communities) :
      /\ result.communities[i].confidence >= 100
      /\ result.communities[i].confidence <= 1000

\* C2 witness: a successful response holds a community at the floor 0.1
\* (its distance is beyond the last breakpoint) and one at 1.0.
C2_Witness ==
  /\ Success
  /\ \E i \in 1..Len(result.communities) :
       result.communities[i].confidence = 100
  /\ \E i \in 1..Len(result.communities) :
       result.communities[i].confidence = 1000

\* the positions of the hits whose metadata and distance are both present
RECURSIVE PresentHitsFrom(_, _)
PresentHitsFrom(r, i) ==
  IF i > Len(r.ids) THEN <<>>
  ELSE IF /\ i <= Len(r.metadatas) /\ r.metadatas[i].k = "obj"
          /\ i <= Len(r.distances) /\ r.distances[i].k = "num"
       THEN <<i>> \o PresentHitsFrom(r, i + 1)
       ELSE PresentHitsFrom(r, i + 1)

\* C6: for any store response transformResults returns, in the store's
\* order, exactly one Community for each hit whose metadata and distance
\* are both present and nothing for a hit whose metadata or distance is
\* null or missing; no error is raised and the request succeeds.
C6_AbsentHitsSkippedSilently ==
  (pc = "done" /\ received.k = "response") =>
    /\ ~transformed.threw
    /\ [i \in 1..Len(transformed.communities) |->
          transformed.communities[i].hit] = PresentHitsFrom(received, 1)
    /\ result.status = "success"

\* C7: in every successful similarity-mode response no community has an
\* id equal to the resolved source id echoed in similar_to.id.
C7_NoCommunityWithSourceId ==
  SimilarityMode =>
    \A i \in 1..Len(result.communities) :
      result.communities[i].id # result.similar_to.v

\* C7 witness: a similarity-mode response was returned for a store response
\* that held a community with the source id, and other communities stayed.
C7_Witness ==
  /\ SimilarityMode
  /\ \E i \in 1..Len(transformed.communities) :
       transformed.communities[i].id = resolved.id
  /\ Len(result.communities) > 0

\* C8: in every successful similarity-mode response no returned community
\* was built from the hit whose store id is the id of the resolved record,
\* whatever that record's metadata contains.
C8_SourceRecordExcluded ==
  SimilarityMode =>
    \A i \in 1..Len(result.communities) :
      received.ids[result.communities[i].hit] # resolved.id

\* C9: in every successful response, in both modes and for every store
\* response, at most limit communities are returned (10 without a limit).
C9_AtMostLimit ==
  Success => Len(result.communities) <= Limit(args)

\* C10: in every successful response summary.has_more is true iff the
\* number of communities returned equals the limit (10 without a limit).
C10_HasMoreIffLimit ==
  Success =>
    (result.summary.has_more <=>
       Len(result.communities) =
         (IF args.limit.present THEN args.limit.v ELSE 10))

\* C10 witness: a response to a request without a limit holds exactly 10
\* communities and reports has_more.
C10_Witness ==
  /\ Success
  /\ ~args.limit.present
  /\ Len(result.communities) = 10
  /\ result.summary.has_more

(***************************************************************************)
(* Properties of the resolver and of the handler's errors (under Spec).    *)
(***************************************************************************)
Lookups ==
  SelectSeq(calls, LAMBDA c : c.fn \in {"getByIds", "getByMetadata"})

NeighborQueries ==
  SelectSeq(calls, LAMBDA c : c.fn \in {"queryByText", "queryByEmbedding"})

\* the request is a similarity request that passed validation
Resolving == pc # "idle" /\ Len(calls) > 0 /\ calls[1].fn # "queryByText"

\* the k-th answer of the store exists and says: no record
NoRecord(k) == Len(replies) >= k /\ replies[k].ok /\ ~replies[k].found

AllButLast(input) == SubSeq(input, 1, Len(input) - 1)

\* C11: for an input starting with 'discover_' the resolver performs
\* exactly one lookup, by ID, and never one by URL; for any other input it
\* first looks up the URL with a single trailing slash stripped, performs
\* exactly one more lookup, with a slash appended, only if the first one
\* returned no record, and never performs a third.
C11_ResolverLookups ==
  Resolving =>
    LET input == args.similar_to.v
        url == IF input[Len(input)] = "/" THEN AllButLast(input) ELSE input
    IN IF input[1] = "discover_"
       THEN /\ Len(Lookups) = 1
            /\ Lookups[1].fn = "getByIds" /\ Lookups[1].arg = input
       ELSE /\ Len(Lookups) \in {1, 2}
            /\ \A i \in 1..Len(Lookups) : Lookups[i].fn = "getByMetadata"
            /\ Lookups[1].arg = url
            /\ (Len(Lookups) = 2 <=> NoRecord(1))
            /\ (Len(Lookups) = 2 => Lookups[2].arg = url \o <<"/">>)

\* C11 witness: an input ending in two slashes was looked up with one of
\* them stripped, no record came back, and the retry has been answered.
C11_Witness ==
  /\ pc = "done"
  /\ args.similar_to.v = UrlTwoSlashInput
  /\ Len(Lookups) = 2
  /\ Len(replies) = 2

ContainsSeq(text, part) ==
  \E i \in 0..(Len(text) - Len(part)) :
    SubSeq(text, i + 1, i + Len(part)) = part

\* every lookup of the request has been answered, each with no record
NothingFound ==
  /\ Resolving /\ pc = "done"
  /\ Len(replies) = Len(Lookups)
  /\ \A k \in 1..Len(replies) : NoRecord(k)

\* C12: in similarity mode, when no lookup returns a record, the request
\* ends with an error result whose text contains the original similar_to
\* input, and no nearest-neighbor query is issued.
C12_NotFoundCarriesInput ==
  NothingFound =>
    /\ result.isError
    /\ ContainsSeq(result.text, args.similar_to.v)
    /\ NeighborQueries = <<>>

\* C12 witness: both URL lookups of an input with a trailing slash
\* returned no record.
C12_Witness ==
  /\ NothingFound
  /\ args.similar_to.v = UrlSlashInput
  /\ Len(replies) = 2

\* the last answer of the store is a record without an embedding
RecordWithoutEmbedding ==
  /\ Resolving
  /\ Len(replies) > 0
  /\ replies[Len(replies)].found
  /\ replies[Len(replies)].embedding = ""
  /\ Len(replies) = Len(Lookups)

\* C13: when a lookup returns a record without an embedding the request
\* ends with the error 'Could not retrieve embedding ...', which is not
\* the not-found error, and no nearest-neighbor query is issued; the
\* not-found error is produced only when no record was found.
C13_EmbeddingUnavailableDistinct ==
  /\ RecordWithoutEmbedding =>
       /\ pc = "done" /\ result.isError
       /\ Contains(result.text, "Could not retrieve embedding for community: ")
       /\ ~Contains(result.text, "Community not found with ID: ")
       /\ ~Contains(result.text, "Community not found with URL: ")
       /\ NeighborQueries = <<>>
  /\ (\/ Contains(result.text, "Community not found with ID: ")
      \/ Contains(result.text, "Community not found with URL: "))
       => \A k \in 1..Len(replies) : ~replies[k].found

\* C13 witness: the retry of a URL lookup found a record without embedding.
C13_Witness ==
  /\ RecordWithoutEmbedding
  /\ Len(replies) = 2
  /\ pc = "done"

\* C14: every invocation ends either with a success response carrying
\* communities and summary or with an error result carrying only an error
\* text; a failing store call, at any step, ends the request with the
\* error result: it never escapes as an exception and never comes with
\* communities.
C14_SuccessOrErrorEnvelope ==
  /\ pc = "done" =>
       \/ /\ result.status = "success" /\ ~result.isError
          /\ result.text = <<>>
          /\ result.summary.returned = Len(result.communities)
       \/ /\ result.status = "error" /\ result.isError
          /\ result.text # <<>>
          /\ result.communities = <<>> /\ result.summary = NoSummary
  /\ pc # "done" => result = NoResult
  /\ (\E k \in 1..Len(replies) : ~replies[k].ok) =>
       pc = "done" /\ result.status = "error"

\* C14 witness: the lookup succeeded and the nearest-neighbor query failed.
C14_Witness ==
  /\ pc = "done"
  /\ Len(replies) = 2
  /\ replies[1].found /\ ~replies[2].ok
  /\ result.isError

\* C19: when the store credential is not configured, a request that passes
\* validation ends with an error result whose text contains 'CHROMA'; no
\* HTTP request is sent to the store and the request is not retried.
C19_MissingCredential ==
  (~apiKeySet /\ pc # "idle" /\ Len(calls) > 0) =>
    /\ Len(calls) = 1
    /\ ~calls[1].sent
    /\ replies = <<>>
    /\ pc = "done" => (result.isError /\ Contains(result.text, "CHROMA"))

\* C19 witness: a text search without the credential has ended.
C19_Witness ==
  /\ ~apiKeySet
  /\ pc = "done"
  /\ Len(calls) = 1 /\ calls[1].fn = "queryByText"

(***************************************************************************)
(* calculateConfidenceStats and calculateTierDistribution applied to       *)
(* lists of communities.  A list is made the way transformResults makes    *)
(* it, from distances: 0 (confidence 1.000, exact), 0.25 (0.969,           *)
(* semantic), 0.4 (0.950, adjacent), 0.8 (0.900, peripheral) and 0.9       *)
(* (0.800, peripheral).  hit is the position in the list.                  *)
(***************************************************************************)
ListDistances == {0, 25000, 40000, 80000, 90000}

CommunityList(items) ==
  [i \in 1..Len(items) |->
     MakeCommunity(i, "discover_1",
                   Meta("discover_1", items[i].tier, items[i].active),
                   Num(items[i].distance))]

StatsItems == [tier : {"high"}, active : {1}, distance : ListDistances]

StatsInputs ==
  UNION { { CommunityList(f) : f \in [1..n -> StatsItems] } :
          n \in 0..MaxListLen }

StatsInit ==
  /\ fin \in StatsInputs
  /\ fout = NoOutput
  /\ HandlerIdle
  /\ ScoreIdle
  /\ PostIdle
  /\ ConcIdle
  /\ ReadIdle

ConfidenceStats ==
  /\ fout.op = "none"
  /\ fout' = [op |-> "stats", v |-> calculateConfidenceStats(fin)]
  /\ UNCHANGED fin
  /\ UNCHANGED <<handlerVars, scoreVars, postVars, concVars, readVars>>

TierDistribution ==
  /\ fout.op = "none"
  /\ fout' = [op |-> "tiers", v |-> calculateTierDistribution(fin)]
  /\ UNCHANGED fin
  /\ UNCHANGED <<handlerVars, scoreVars, postVars, concVars, readVars>>

StatsNext == ConfidenceStats \/ TierDistribution

SpecStats == StatsInit /\ [][StatsNext]_vars

(***************************************************************************)
(* Properties of the statistics (under SpecStats).                         *)
(***************************************************************************)
\* the k-th smallest confidence of the list, whatever its order
KthConfidence(communities, k) ==
  CHOOSE v \in {communities[i].confidence : i \in 1..Len(communities)} :
    /\ Cardinality({i \in 1..Len(communities) :
                      communities[i].confidence < v}) < k
    /\ Cardinality({i \in 1..Len(communities) :
                      communities[i].confidence <= v}) >= k

RECURSIVE TotalConfidence(_, _)
TotalConfidence(communities, n) ==
  IF n = 0 THEN 0
  ELSE communities[n].confidence + TotalConfidence(communities, n - 1)

Orders(n) ==
  {p \in [1..n -> 1..n] : \A i, j \in 1..n : p[i] = p[j] => i = j}

\* C15: calculateConfidenceStats returns zeros for the empty list; for a
\* non-empty list it returns the mean, the median (the middle value for
\* an odd count, the average of the two middle values for an even count),
\* the minimum and the maximum of the confidences, each within half a
\* thousandth of the exact value, and the same for every order of the list.
C15_ConfidenceStats ==
  fout.op = "stats" =>
    LET n == Len(fin)
        st == fout.v
    IN IF n = 0
       THEN st = [mean |-> 0, median |-> 0, min |-> 0, max |-> 0]
       ELSE /\ st.min = KthConfidence(fin, 1)
            /\ st.max = KthConfidence(fin, n)
            /\ 2 * Abs(n * st.mean - TotalConfidence(fin, n)) <= n
            /\ IF n % 2 = 1
               THEN st.median = KthConfidence(fin, (n + 1) \div 2)
               ELSE Abs(2 * st.median
                        - (KthConfidence(fin, n \div 2)
                           + KthConfidence(fin, n \div 2 + 1))) <= 1
            /\ \A p \in Orders(n) :
                 calculateConfidenceStats([i \in 1..n |-> fin[p[i]]]) = st

\* C15 witness: the statistics of an unsorted list of four confidences
\* whose two middle values differ.
C15_Witness ==
  /\ fout.op = "stats"
  /\ Len(fin) = 4
  /\ fin[1].confidence < fin[2].confidence
  /\ fin[3].confidence < fin[2].confidence
  /\ KthConfidence(fin, 2) # KthConfidence(fin, 3)

RECURSIVE TierCount(_, _, _)
TierCount(communities, n, t) ==
  IF n = 0 THEN 0
  ELSE (IF communities[n].match_tier = t THEN 1 ELSE 0)
       + TierCount(communities, n - 1, t)

\* C16: calculateTierDistribution returns, for every list (the empty list
\* too), an object with exactly the keys exact, semantic, adjacent and
\* peripheral, each holding the number of communities of that match_tier.
C16_TierDistribution ==
  fout.op = "tiers" =>
    /\ DOMAIN fout.v = {"exact", "semantic", "adjacent", "peripheral"}
    /\ \A t \in DOMAIN fout.v : fout.v[t] = TierCount(fin, Len(fin), t)

\* C16 witness: a list with two communities of one tier and none of
\* another.
C16_Witness ==
  /\ fout.op = "tiers"
  /\ fout.v.peripheral = 2
  /\ fout.v.exact = 0
  /\ fout.v.semantic = 1

(***************************************************************************)
(* rerank applied to lists of communities with confidences 1.000, 0.900    *)
(* and 0.800 (distances 0, 0.8 and 0.9): neighbours are within 0.1 of      *)
(* each other and the two ends are not.                                    *)
(***************************************************************************)
RerankItems ==
  [tier : {"high", "low"}, active : {1, 2}, distance : {0, 80000, 90000}]

RerankInputs ==
  UNION { { CommunityList(f) : f \in [1..n -> RerankItems] } :
          n \in 0..MaxRerankLen }

RerankInit ==
  /\ fin \in RerankInputs
  /\ fout = NoOutput
  /\ HandlerIdle
  /\ ScoreIdle
  /\ PostIdle
  /\ ConcIdle
  /\ ReadIdle

Rerank ==
  /\ fout.op = "none"
  /\ fout' = [op |-> "rerank", v |-> rerank(fin)]
  /\ UNCHANGED fin
  /\ UNCHANGED <<handlerVars, scoreVars, postVars, concVars, readVars>>

RerankNext == Rerank

SpecRerank == RerankInit /\ [][RerankNext]_vars

(***************************************************************************)
(* Properties of rerank (under SpecRerank).                                *)
(***************************************************************************)
\* C17: in the output of rerank, of every pair of communities whose
\* confidences differ by more than 0.1 the one with the higher confidence
\* comes first, whatever their engagement tiers and active-user counts
\* and whatever else is in the list.
C17_FarPairsByConfidence ==
  fout.op = "rerank" =>
    \A i, j \in 1..Len(fout.v) :
      (i < j /\ Abs(fout.v[i].confidence - fout.v[j].confidence) > 100)
        => fout.v[i].confidence > fout.v[j].confidence

\* C18: in the output of rerank, every pair of communities whose
\* confidences differ by at most 0.1 is ordered by engagement tier ordinal
\* descending, then by active_users_30_days descending, and a pair equal on
\* both keeps its order from the input.
C18_ClosePairsByEngagement ==
  fout.op = "rerank" =>
    \A i, j \in 1..Len(fout.v) :
      (i < j /\ Abs(fout.v[i].confidence - fout.v[j].confidence) <= 100)
        => LET a == fout.v[i]
               b == fout.v[j]
               ta == tierOrder(a.engagement_tier)
               tb == tierOrder(b.engagement_tier)
           IN \/ ta > tb
              \/ ta = tb /\ a.active_users_30_days > b.active_users_30_days
              \/ /\ ta = tb
                 /\ a.active_users_30_days = b.active_users_30_days
                 /\ a.hit < b.hit

(***************************************************************************)
(* create_post.ts: the handler of discourse_create_post and its limiter.   *)
(* now is the value of Date.now(); the module variable lastPostAt starts   *)
(* at 0 and the clock starts a full window later.  A call is cut at its    *)
(* awaits: the timer of line 37 and the response of client.post (line 48). *)
(* posts is a history variable: the POSTs to /posts.json, with the time    *)
(* each was issued at.                                                     *)
(***************************************************************************)
PostWindow == 1000

PostInit ==
  /\ now = PostWindow
  /\ lastPostAt = 0
  /\ postPc = [i \in 1..MaxCalls |-> "idle"]
  /\ wakeAt = [i \in 1..MaxCalls |-> 0]
  /\ posts = <<>>
  /\ HandlerIdle
  /\ ScoreIdle
  /\ ListIdle
  /\ ConcIdle
  /\ ReadIdle

\* lines 39-48: lastPostAt = Date.now(), then the try block up to the
\* call of client.post; ensureSelectedSite throws when no site is selected
AfterLimiter(i, siteSelected) ==
  /\ lastPostAt' = now
  /\ IF siteSelected
     THEN /\ posts' = Append(posts, [call |-> i, at |-> now])
          /\ postPc' = [postPc EXCEPT ![i] = "posting"]
     ELSE /\ posts' = posts
          /\ postPc' = [postPc EXCEPT ![i] = "failed"]

\* the handler is called: lines 31-39
CreatePost(i, valid, siteSelected) ==
  /\ postPc[i] = "idle"
  /\ IF ~valid
     THEN /\ postPc' = [postPc EXCEPT ![i] = "thrown"]
          /\ UNCHANGED <<lastPostAt, wakeAt, posts>>
     ELSE IF now - lastPostAt < PostWindow
     THEN /\ wakeAt' = [wakeAt EXCEPT
                          ![i] = now + (PostWindow - (now - lastPostAt))]
          /\ postPc' = [postPc EXCEPT ![i] = "waiting"]
          /\ UNCHANGED <<lastPostAt, posts>>
     ELSE /\ AfterLimiter(i, siteSelected)
          /\ UNCHANGED wakeAt
  /\ UNCHANGED now
  /\ UNCHANGED <<handlerVars, scoreVars, listVars, concVars, readVars>>

\* the timer of line 37 fires, not before its delay has passed
TimerFires(i, siteSelected) ==
  /\ postPc[i] = "waiting"
  /\ now >= wakeAt[i]
  /\ AfterLimiter(i, siteSelected)
  /\ UNCHANGED <<now, wakeAt>>
  /\ UNCHANGED <<handlerVars, scoreVars, listVars, concVars, readVars>>

\* client.post settles: lines 48-58
PostReturns(i, ok) ==
  /\ postPc[i] = "posting"
  /\ postPc' = [postPc EXCEPT ![i] = IF ok THEN "done" ELSE "failed"]
  /\ UNCHANGED <<now, lastPostAt, wakeAt, posts>>
  /\ UNCHANGED <<handlerVars, scoreVars, listVars, concVars, readVars>>

\* time passes
Advance(d) ==
  /\ now + d <= MaxNow
  /\ now' = now + d
  /\ UNCHANGED <<lastPostAt, postPc, wakeAt, posts>>
  /\ UNCHANGED <<handlerVars, scoreVars, listVars, concVars, readVars>>

PostNext ==
  \/ \E i \in 1..MaxCalls, valid \in BOOLEAN, siteSelected \in BOOLEAN :
       CreatePost(i, valid, siteSelected)
  \/ \E i \in 1..MaxCalls, siteSelected \in BOOLEAN :
       TimerFires(i, siteSelected)
  \/ \E i \in 1..MaxCalls, ok \in BOOLEAN : PostReturns(i, ok)
  \/ \E d \in {100, 400, 500} : Advance(d)

SpecPost == PostInit /\ [][PostNext]_vars

(***************************************************************************)
(* Property of the limiter (under SpecPost).                               *)
(***************************************************************************)
\* C20: any two POSTs to /posts.json that discourse_create_post issues
\* are at least 1000 ms apart, for any number of calls, calls that arrive
\* while an earlier call is waiting in the limiter included.
C20_PostsOneSecondApart ==
  \A i, j \in 1..Len(posts) :
    i < j => posts[j].at - posts[i].at >= 1000

(***************************************************************************)
(* buildWhereClause applied to the filters the input schema (lines         *)
(* 535-548) accepts: min_users any integer, engagement_tier one of high,   *)
(* medium and low, locale any string, the empty string included.           *)
(***************************************************************************)
WhereInputs ==
  [min_users : {None(0), Some(-5), Some(0), Some(100)},
   engagement_tier : {None(""), Some("high"), Some("medium"), Some("low")},
   locale : {None(""), Some(""), Some("en"), Some("de")}]

WhereInit ==
  /\ fin \in WhereInputs
  /\ fout = NoOutput
  /\ HandlerIdle
  /\ ScoreIdle
  /\ PostIdle
  /\ ConcIdle
  /\ ReadIdle

BuildWhere ==
  /\ fout.op = "none"
  /\ fout' = [op |-> "where", v |-> buildWhereClause(fin)]
  /\ UNCHANGED fin
  /\ UNCHANGED <<handlerVars, scoreVars, postVars, concVars, readVars>>

WhereNext == BuildWhere

SpecWhere == WhereInit /\ [][WhereNext]_vars

(***************************************************************************)
(* Property of buildWhereClause (under SpecWhere).                         *)
(***************************************************************************)
HasClause(where, field, op, num, str) ==
  \E i \in 1..Len(where.clauses) :
    where.clauses[i] = [field |-> field, op |-> op, num |-> num, str |-> str]

PresentFilters(filters) ==
  {f \in {"min_users", "engagement_tier", "locale"} : filters[f].present}

\* C21: buildWhereClause produces one clause per filter present in the
\* request: none when no filter is present, the single clause when one is,
\* the AND of all of them when two or three are; a present filter is never
\* omitted and an absent filter never adds a clause.
C21_OneClausePerPresentFilter ==
  fout.op = "where" =>
    LET n == Cardinality(PresentFilters(fin))
    IN /\ Len(fout.v.clauses) = n
       /\ fout.v.k = (IF n = 0 THEN "undefined"
                      ELSE IF n = 1 THEN "single" ELSE "$and")
       /\ fin.min_users.present =>
            HasClause(fout.v, "users_count", "$gte", fin.min_users.v, "")
       /\ fin.engagement_tier.present =>
            HasClause(fout.v, "engagement_tier", "$eq", 0,
                      fin.engagement_tier.v)
       /\ fin.locale.present =>
            HasClause(fout.v, "locale", "$eq", 0, fin.locale.v)

PairItems ==
  [tier : {"high", "low"}, active : {1, 2},
   distance : {0, 79680, 80000, 90000}]

PairInit ==
  /\ fin \in [1..2 -> PairItems]
  /\ fout = NoOutput
  /\ HandlerIdle
  /\ ScoreIdle
  /\ PostIdle
  /\ ConcIdle
  /\ ReadIdle

TransformAndRerank ==
  /\ fout.op = "none"
  /\ fout' = [op |-> "ranked", v |-> rerank(CommunityList(fin))]
  /\ UNCHANGED fin
  /\ UNCHANGED <<handlerVars, scoreVars, postVars, concVars, readVars>>

PairNext == TransformAndRerank

SpecPair == PairInit /\ [][PairNext]_vars

(***************************************************************************)
(* Property of the confidence gap (under SpecPair).                        *)
(***************************************************************************)
\* the confidence of a community before rounding
Unrounded(c) == calculateConfidenceFromDistance(fin[c.hit].distance)

\* C23: rerank decides whether the confidence gap of two communities
\* exceeds 0.1 on their unrounded confidences: the two are ordered by
\* confidence exactly when the unrounded values differ by more than 0.1,
\* and by engagement tier, then active users, then input order otherwise.
C23_GapOnUnroundedConfidence ==
  fout.op = "ranked" =>
    LET a == fout.v[1]
        b == fout.v[2]
        ta == tierOrder(a.engagement_tier)
        tb == tierOrder(b.engagement_tier)
    IN IF Abs(Unrounded(a) - Unrounded(b)) > 10000000
       THEN Unrounded(a) > Unrounded(b)
       ELSE \/ ta > tb
            \/ ta = tb /\ a.active_users_30_days > b.active_users_30_days
            \/ /\ ta = tb
               /\ a.active_users_30_days = b.active_users_30_days
               /\ a.hit < b.hit

(***************************************************************************)
(* Properties of the handler's store calls (under Spec).                   *)
(***************************************************************************)
\* C24: a request that passes validation issues at most one
\* nearest-neighbor query: in text mode a query by text for exactly limit
\* results, in similarity mode a query by the resolved embedding for
\* exactly limit + 1 results, both with the where clause of the request's
\* filters; text mode never performs a resolver lookup.
C24_OneNeighborQuery ==
  Len(calls) > 0 =>
    LET limit == IF args.limit.present THEN args.limit.v ELSE 10
        textMode == args.query.present /\ args.query.v # ""
    IN /\ Len(NeighborQueries) <= 1
       /\ textMode => Lookups = <<>>
       /\ \A i \in 1..Len(NeighborQueries) :
            LET q == NeighborQueries[i]
            IN /\ q.where = buildWhereClause(args.filters)
               /\ IF textMode
                  THEN /\ q.fn = "queryByText"
                       /\ q.arg = <<args.query.v>>
                       /\ q.nResults = limit
                  ELSE /\ q.fn = "queryByEmbedding"
                       /\ q.arg = <<replies[Len(Lookups)].embedding>>
                       /\ q.nResults = limit + 1

\* C24 witness: a similarity request with a limit and three filters has
\* issued its query after a retried URL lookup.
C24_Witness ==
  /\ Len(calls) = 3
  /\ calls[3].fn = "queryByEmbedding"
  /\ args.limit.present
  /\ calls[3].nResults = args.limit.v + 1
  /\ calls[3].where.k = "$and"

\* the transformed hits without the self-match: the hit that is the
\* resolved record itself
WithoutSelfMatch ==
  SelectSeq(transformed.communities,
            LAMBDA c : received.ids[c.hit] # resolved.id)

\* C25: in similarity mode the returned list is the first limit elements
\* of rerank applied to the transformed hits with the self-match already
\* removed; the self-match never takes one of the returned slots, and
\* truncation comes last.
C25_FilterRerankSlice ==
  SimilarityMode =>
    LET limit == IF args.limit.present THEN args.limit.v ELSE 10
        ranked == rerank(WithoutSelfMatch)
    IN /\ result.communities
            = SubSeq(ranked, 1, IF Len(ranked) < limit THEN Len(ranked)
                                ELSE limit)
       /\ \A i \in 1..Len(result.communities) :
            received.ids[result.communities[i].hit] # resolved.id

\* C26: no store call is re-issued after it fails: a request makes at most
\* one store call in text mode and at most three in similarity mode (at
\* most two lookups, then at most one nearest-neighbor query), and the
\* first store call that fails ends the request with an error result
\* carrying the upstream message, with no further store call.
C26_NoRetryAfterFailure ==
  Len(calls) > 0 =>
    /\ IF args.query.present /\ args.query.v # ""
       THEN Len(calls) <= 1
       ELSE /\ Len(calls) <= 3
            /\ Len(Lookups) <= 2
            /\ Len(NeighborQueries) <= 1
            /\ \A i \in 1..Len(calls) :
                 calls[i].fn = "queryByEmbedding" => i = Len(calls)
    /\ \A k \in 1..Len(replies) :
         ~replies[k].ok =>
           /\ k = Len(calls)
           /\ pc = "done"
           /\ result.isError
           /\ Contains(result.text, "upstream")

\* C26 witness: in similarity mode the third store call, the query after
\* two lookups, failed.
C26_Witness ==
  /\ Len(calls) = 3
  /\ Len(replies) = 3
  /\ ~replies[3].ok
  /\ pc = "done"

(***************************************************************************)
(* Concurrent invocations of the search handler.  Node runs one            *)
(* invocation at a time and may change to another one whenever the         *)
(* running one is suspended at an await (lines 456, 466, 470, 597, 614)    *)
(* or has returned.  Everything an invocation writes is a const or let     *)
(* of the handler or of resolveToDocument, so each invocation has its own  *)
(* copy: the variables of Spec hold the locals of the invocation cur,      *)
(* parked those of the others.  Only the environment is shared.            *)
(***************************************************************************)
Frame ==
  [pc |-> pc, args |-> args, calls |-> calls, resolved |-> resolved,
   received |-> received, transformed |-> transformed, result |-> result,
   replies |-> replies]

IdleFrame ==
  [pc |-> "idle", args |-> NoArgs, calls |-> <<>>, resolved |-> NoResolved,
   received |-> NoResponse, transformed |-> NotTransformed,
   result |-> NoResult, replies |-> <<>>]

ConcArgs ==
  { [query |-> Some("x"), similar_to |-> None(<<>>), limit |-> None(0),
     filters |-> NoFilters],
    [query |-> None(""), similar_to |-> Some(IdInput), limit |-> Some(1),
     filters |-> NoFilters],
    [query |-> None(""), similar_to |-> Some(UrlInput), limit |-> None(0),
     filters |-> NoFilters],
    NoArgs }

ConcHits ==
  <<Hit("discover_1", Meta("discover_1", "high", 50), Num(10000)),
    Hit("discover_2", Meta("discover_2", "low", 500), Num(19996))>>

ConcQueryResponses ==
  {QueryResponse(ConcHits, TRUE), QueryResponse(<<>>, TRUE), FailedResponse}

ConcGetResponses ==
  { GetResponse(FALSE, <<>>, ""),
    GetResponse(TRUE, <<>>, ""),
    GetResponse(TRUE, <<"discover_1">>, "vec_1"),
    GetResponse(TRUE, <<"discover_2">>, "vec_2") }

ConcInit ==
  /\ apiKeySet \in BOOLEAN
  /\ pc = "idle"
  /\ args = NoArgs
  /\ calls = <<>>
  /\ resolved = NoResolved
  /\ received = NoResponse
  /\ transformed = NotTransformed
  /\ result = NoResult
  /\ replies = <<>>
  /\ cur = 1
  /\ parked = [i \in 1..MaxRequests |-> IdleFrame]
  /\ interleaved = FALSE
  /\ ScoreIdle
  /\ ListIdle
  /\ PostIdle
  /\ ReadIdle

Switch_sharedResolved(j) ==
  /\ pc # "idle"
  /\ j # cur
  /\ parked' = [parked EXCEPT ![cur] = Frame, ![j] = IdleFrame]
  /\ cur' = j
  /\ interleaved' = (interleaved \/ pc # "done")
  /\ pc' = parked[j].pc
  /\ args' = parked[j].args
  /\ calls' = parked[j].calls
  /\ resolved' = resolved
  /\ received' = parked[j].received
  /\ transformed' = parked[j].transformed
  /\ result' = parked[j].result
  /\ replies' = parked[j].replies
  /\ UNCHANGED <<apiKeySet, scoreVars, listVars, postVars, readVars>>

\* the running invocation is suspended or has returned, and invocation j
\* runs next
Switch(j) ==
  /\ pc # "idle"
  /\ j # cur
  /\ parked' = [parked EXCEPT ![cur] = Frame, ![j] = IdleFrame]
  /\ cur' = j
  /\ interleaved' = (interleaved \/ pc # "done")
  /\ pc' = parked[j].pc
  /\ args' = parked[j].args
  /\ calls' = parked[j].calls
  /\ resolved' = parked[j].resolved
  /\ received' = parked[j].received
  /\ transformed' = parked[j].transformed
  /\ result' = parked[j].result
  /\ replies' = parked[j].replies
  /\ UNCHANGED <<apiKeySet, scoreVars, listVars, postVars, readVars>>

ConcNext ==
  \/ \E a \in ConcArgs : Invoke(a)
  \/ \E r \in ConcQueryResponses : QueryByTextReturns(r)
  \/ \E r \in ConcGetResponses : GetByIdsReturns(r)
  \/ \E r \in ConcGetResponses : GetByMetadata1Returns(r)
  \/ \E r \in ConcGetResponses : GetByMetadata2Returns(r)
  \/ \E r \in ConcQueryResponses : QueryByEmbeddingReturns(r)
  \/ \E j \in 1..MaxRequests : Switch(j)

SpecConc == ConcInit /\ [][ConcNext]_vars

(***************************************************************************)
(* Property of concurrent invocations (under SpecConc).                    *)
(***************************************************************************)
FrameOf(i) == IF i = cur THEN Frame ELSE parked[i]

\* what transformResults, the self-match filter, rerank and the slice
\* make of a nearest-neighbor response
AloneFromHits(a, rcv, responseQuery, sourceId) ==
  LET t == transformResults(rcv.ids, rcv.metadatas, rcv.distances)
  IN IF t.threw THEN Caught(ToFixedTypeError)
     ELSE IF responseQuery.present
     THEN SuccessResult(a, rerank(t.communities), responseQuery, None(""))
     ELSE SuccessResult(a, SimilarCommunities(t.communities, sourceId,
                                              Limit(a)),
                        None(""), Some(sourceId))

\* the response of a request that runs alone with arguments a, the
\* environment key and the store answers rs (the last of them, when it is
\* a nearest-neighbor response, being rcv)
Alone(a, key, rs, rcv) ==
  IF Invalid(a) THEN ErrorResult(ValidationText)
  ELSE IF ~key THEN Caught(MissingKeyMessage)
  ELSE IF TruthyStr(a.query)
  THEN IF ~rs[1].ok THEN Caught(TransportMessage)
       ELSE AloneFromHits(a, rcv, Some(a.query.v), "")
  ELSE LET input == a.similar_to.v
           byId == startsWithDiscover(input)
           last == IF ~byId /\ rs[1].ok /\ ~rs[1].found THEN 2 ELSE 1
       IN IF \E k \in 1..last : ~rs[k].ok THEN Caught(TransportMessage)
          ELSE IF ~rs[last].found
          THEN Caught(IF byId THEN NotFoundIdMessage(input)
                      ELSE NotFoundUrlMessage(input))
          ELSE IF rs[last].embedding = ""
          THEN Caught(EmbeddingMessage(input))
          ELSE IF ~rs[last + 1].ok THEN Caught(TransportMessage)
          ELSE AloneFromHits(a, rcv, None(""), rs[last].id)

\* C27: for any interleaving of concurrent search requests at their
\* store-call suspension points, the response of each request is the one
\* it would produce running alone with the same store responses.
C27_ResponseAsIfAlone ==
  \A i \in 1..MaxRequests :
    LET f == FrameOf(i)
    IN f.pc = "done" =>
         f.result = Alone(f.args, apiKeySet, f.replies, f.received)

\* C27 witness: two similarity requests that resolved different records
\* have both returned communities, one of them having run while the other
\* was suspended at a store call.
C27_Witness ==
  /\ interleaved
  /\ \A i \in 1..2 :
       /\ FrameOf(i).pc = "done"
       /\ FrameOf(i).result.status = "success"
       /\ FrameOf(i).result.similar_to.present
       /\ FrameOf(i).result.communities # <<>>
  /\ FrameOf(1).result.similar_to.v # FrameOf(2).result.similar_to.v

(***************************************************************************)
(* Properties of the response (under Spec).                                *)
(***************************************************************************)
\* the tier the thresholds 0.2, 0.35 and 0.65 give a distance reported
\* with four decimals
TierOfReported(distance4) ==
  IF distance4 < 2000 THEN "exact"
  ELSE IF distance4 < 3500 THEN "semantic"
  ELSE IF distance4 < 6500 THEN "adjacent"
  ELSE "peripheral"

\* C28: in every community of a successful response match_tier is the
\* tier the thresholds assign to the distance reported in the same
\* community, and two communities of one response that report equal
\* distances have equal match_tier.
C28_TierMatchesReportedDistance ==
  Success =>
    /\ \A i \in 1..Len(result.communities) :
         result.communities[i].match_tier
           = TierOfReported(result.communities[i].distance)
    /\ \A i, j \in 1..Len(result.communities) :
         result.communities[i].distance = result.communities[j].distance
           => result.communities[i].match_tier
                = result.communities[j].match_tier

\* C29: in every successful response the summary describes the returned
\* list: total_found = returned = the number of communities, the four
\* tier counts sum to that number, and for a non-empty list min <= mean
\* <= max and min <= median <= max, all within [0.1, 1.0].
C29_SummaryDescribesReturnedList ==
  Success =>
    LET n == Len(result.communities)
        sm == result.summary
        st == sm.confidence_stats
        td == sm.tier_distribution
    IN /\ sm.total_found = n
       /\ sm.returned = n
       /\ td.exact + td.semantic + td.adjacent + td.peripheral = n
       /\ n > 0 =>
            /\ 100 <= st.min
            /\ st.min <= st.mean /\ st.mean <= st.max
            /\ st.min <= st.median /\ st.median <= st.max
            /\ st.max <= 1000

\* C29 witness: a similarity response from which the self-match was
\* removed, with several communities of different confidences.
C29_Witness ==
  /\ SimilarityMode
  /\ \E i \in 1..Len(transformed.communities) :
       transformed.communities[i].id = resolved.id
  /\ Len(result.communities) >= 2
  /\ result.summary.confidence_stats.min
       < result.summary.confidence_stats.max

(***************************************************************************)
(* part_004: the handler of discourse_read_topic (lines 25-81), cut at     *)
(* the await of client.get (line 43).  A post is its post_number; 0 is a   *)
(* post without one (`p.post_number || 0`).  fetchedPosts keeps the post   *)
(* numbers of the posts collected.                                         *)
(***************************************************************************)
maxBatches == 10

DefaultPostLimit == 5

\* `post_limit = 5` of line 25
PostLimit(a) ==
  IF a.post_limit.present THEN a.post_limit.v ELSE DefaultPostLimit

\* `start_post_number ?? 1` of line 28
Start(a) ==
  IF a.start_post_number.present THEN a.start_post_number.v ELSE 1

\* what the schema (lines 5-9) accepts
ReadArgSets ==
  [post_limit : {None(0), Some(1), Some(2), Some(MaxPostLimit)},
   start_post_number : {None(0), Some(1), Some(3)}]

\* post_stream.posts of a response, relative to the position asked for:
\* no post, a post without number, a post below the position, the post at
\* it, two posts at and after it in reverse order, and a post beyond it
StreamsAt(c) == { <<>>, <<0>>, <<c - 1>>, <<c>>, <<c + 1, c>>, <<c + 2>> }

\* line 52
AtOrAfter(sorted, c) == SelectSeq(sorted, LAMBDA p : p >= c)

\* lines 53-61: push until post_limit posts are collected
Collected(fetched, filtered, limit) ==
  fetched \o SubSeq(filtered, 1, Min(Len(filtered), limit - Len(fetched)))

LoopContinues_noCap(i, fetched, limit) == Len(fetched) < limit

\* the loop condition of line 40
LoopContinues(i, fetched, limit) == i < maxBatches /\ Len(fetched) < limit

ReadError == [status |-> "error", isError |-> TRUE, posts |-> <<>>]

ReadSuccess(fetched) ==
  [status |-> "success", isError |-> FALSE, posts |-> fetched]

ReadInit ==
  /\ readPc = "idle"
  /\ readArgs = NoReadArgs
  /\ current = 0
  /\ fetchedPosts = <<>>
  /\ batch = 0
  /\ fetches = 0
  /\ readResult = NoReadResult
  /\ HandlerIdle
  /\ ScoreIdle
  /\ ListIdle
  /\ PostIdle
  /\ ConcIdle

\* the loop head of line 40 with counter i: the next client.get is issued,
\* or the loop ends and lines 66-77 return the posts
LoopHead(i, fetched) ==
  IF LoopContinues(i, fetched, PostLimit(readArgs'))
  THEN /\ fetches' = fetches + 1
       /\ readPc' = "fetching"
       /\ readResult' = readResult
  ELSE /\ fetches' = fetches
       /\ readPc' = "done"
       /\ readResult' = ReadSuccess(fetched)

\* the handler is called: lines 25-43
ReadTopic(a, siteSelected) ==
  /\ readPc = "idle"
  /\ readArgs' = a
  /\ IF ~siteSelected
     THEN /\ readResult' = ReadError
          /\ readPc' = "done"
          /\ UNCHANGED <<current, fetchedPosts, batch, fetches>>
     ELSE /\ current' = Start(a)
          /\ fetchedPosts' = <<>>
          /\ batch' = 0
          /\ LoopHead(0, <<>>)
  /\ UNCHANGED <<handlerVars, scoreVars, listVars, postVars, concVars>>

\* client.get returns or throws: lines 43-64, then the loop head again
GetReturns(stream, ok) ==
  /\ readPc = "fetching"
  /\ readArgs' = readArgs
  /\ IF ~ok
     THEN /\ readResult' = ReadError
          /\ readPc' = "done"
          /\ UNCHANGED <<current, fetchedPosts, batch, fetches>>
     ELSE LET filtered == AtOrAfter(SortAsc(stream), current)
              fetched == Collected(fetchedPosts, filtered,
                                   PostLimit(readArgs))
          IN /\ fetchedPosts' = fetched
             /\ IF filtered = <<>>
                THEN /\ readResult' = ReadSuccess(fetched)
                     /\ readPc' = "done"
                     /\ UNCHANGED <<current, batch, fetches>>
                ELSE /\ current' = filtered[Len(filtered)] + 1
                     /\ batch' = batch + 1
                     /\ LoopHead(batch + 1, fetched)
  /\ UNCHANGED <<handlerVars, scoreVars, listVars, postVars, concVars>>

ReadNext ==
  \/ \E a \in ReadArgSets, siteSelected \in BOOLEAN : ReadTopic(a, siteSelected)
  \/ \E stream \in StreamsAt(current), ok \in BOOLEAN : GetReturns(stream, ok)

SpecRead == ReadInit /\ [][ReadNext]_vars

(***************************************************************************)
(* Property of discourse_read_topic (under SpecRead).                      *)
(***************************************************************************)
\* C30: for any sequence of server responses discourse_read_topic stops
\* after at most 10 fetches and returns at most post_limit posts, none
\* with a post number below start_post_number; it fetches again only
\* while fewer than post_limit posts are collected and every earlier fetch
\* returned a post at or beyond the position it asked for.
C30_ReadTopicBounded ==
  LET limit == IF readArgs.post_limit.present THEN readArgs.post_limit.v
               ELSE 5
      start == IF readArgs.start_post_number.present
               THEN readArgs.start_post_number.v ELSE 1
  IN /\ fetches <= 10
     /\ Len(readResult.posts) <= limit
     /\ \A k \in 1..Len(readResult.posts) : readResult.posts[k] >= start
     /\ readPc = "fetching" =>
          /\ Len(fetchedPosts) < limit
          /\ current >= start + (fetches - 1)
          /\ Len(fetchedPosts) >= fetches - 1
     /\ readResult.isError => readResult.posts = <<>>

\* C30 witness: the tenth fetch returned one more post and the handler
\* returned its ten posts, fewer than post_limit.
C30_Witness ==
  /\ readPc = "done"
  /\ fetches = 10
  /\ readResult.status = "success"
  /\ Len(readResult.posts) = 10
  /\ readArgs.post_limit.present /\ readArgs.post_limit.v > 10

====
